---- MODULE Spec2Model ----
(***************************************************************************)
(* Model of generatePDF (src/src/lib.rs): generate_pdf_with_size builds a  *)
(* one-page PDF whose serialized length is meant to equal the requested    *)
(* size.  The sizing arithmetic (calculate_overhead and its two helpers)   *)
(* and the buffer handling are translated from lib.rs; the fuzz target     *)
(* (src/fuzz/fuzz_targets/fuzz_target_1.rs) supplies the save-and-measure  *)
(* step.  The encoder (lopdf) is not part of the repository: its byte      *)
(* accounting is modelled from the constants the repository measured on    *)
(* it and is marked as such below.                                         *)
(***************************************************************************)
EXTENDS Integers, Sequences, FiniteSets, TLC

\* ---------------------------------------------------------------- bounds
\* Largest target size for which whole calls (buffer included) are explored.
MaxTarget == 1600
\* Number of concurrent callers in the interleaved specification.
NumCallers == 2
\* Half-width of the windows of inputs explored around every power of ten.
Window == 12
\* ------------------------------------------------------- program constants
BASE_OVERHEAD == 539

\* Variant: the minimum set one byte too low.
MIN_SIZE_PDF_Low == BASE_OVERHEAD + 4

MIN_SIZE_PDF == 544

CONTENT_OVERHEAD == 31

XREF_TABLE_BASE_OFFSET == 162

\* fuzz_target_1.rs: max_value = 1 << 28
max_value == 268435456

\* "4".as_bytes()[0]
FILLER == 52

Callers == 1..NumCallers

RECURSIVE Pow10(_)
Pow10(k) == IF k = 0 THEN 1 ELSE 10 * Pow10(k - 1)

\* Sizes at which one of the two printed numbers gains a digit, with their
\* neighbourhood, for the power of ten 10^k.
Around(k) ==
    UNION { { Pow10(k) + off + d : d \in (0 - Window)..Window } :
            off \in { XREF_TABLE_BASE_OFFSET, BASE_OVERHEAD - CONTENT_OVERHEAD } }

\* Target sizes of whole calls: every size up to MaxTarget (below and above
\* the minimum) and the sizes around the step from four to five digits.
Targets == (0..MaxTarget) \cup Around(4)

\* Targets used when several callers run interleaved: both sides of the
\* minimum, and a size whose content-stream length is next to 100.
ParTargets == {MIN_SIZE_PDF - 1, MIN_SIZE_PDF, MIN_SIZE_PDF + 1, 611}

\* Inputs of the pure sizing functions: the small sizes contiguously, the
\* neighbourhood of every size at which one of the two printed numbers
\* gains a digit (10^8 is the last power of ten below max_value), and the
\* top of the fuzzed range.
CalcInputs ==
    { t \in MIN_SIZE_PDF..MaxTarget : TRUE }
    \cup { t \in UNION { Around(k) : k \in 2..8 } :
            t >= MIN_SIZE_PDF /\ t < max_value }
    \cup { t \in (max_value - Window)..(max_value - 1) : t >= MIN_SIZE_PDF }

VARIABLES pc, file_size_bytes, buffer, result, file, outcomes, calc, encode_errs

vars == <<pc, file_size_bytes, buffer, result, file, outcomes, calc, encode_errs>>

\* ------------------------------------------------------- sizing functions
\* usize::ilog10: floor(log10(n)); the code panics for n = 0 (see ArithOK).
RECURSIVE ilog10(_)
ilog10(n) == IF n < 10 THEN 0 ELSE 1 + ilog10(n \div 10)

\* let mut content_bytes = bytes - BASE_OVERHEAD + CONTENT_OVERHEAD;
content_bytes_of(bytes) == (bytes - BASE_OVERHEAD) + CONTENT_OVERHEAD

content_bytes_digits_of(bytes) == ilog10(content_bytes_of(bytes)) + 1

\* content_bytes = content_bytes - content_bytes_digits;
content_bytes_corrected(bytes) ==
    content_bytes_of(bytes) - content_bytes_digits_of(bytes)

calculate_overhead_from_start(bytes) ==
    ilog10(content_bytes_corrected(bytes)) + 1

offset_of(bytes) == bytes - XREF_TABLE_BASE_OFFSET

calculate_overhead_from_end(bytes) ==
    ilog10(offset_of(bytes)) + 1

\* Variant: the end-side width taken after subtracting itself from the offset.
calculate_overhead_EndIterated(bytes) ==
    BASE_OVERHEAD + calculate_overhead_from_start(bytes)
        + (ilog10(offset_of(bytes) - calculate_overhead_from_end(bytes)) + 1)

\* Variant: the overhead kept in state shared by all calls, the value of a
\* call still in flight being reused.
calculate_overhead_Shared(bytes) ==
    IF \E c \in Callers : pc[c] \in {"fill", "build"}
    THEN LET c == CHOOSE c \in Callers : pc[c] \in {"fill", "build"}
         IN  file_size_bytes[c] - Len(buffer[c])
    ELSE BASE_OVERHEAD + calculate_overhead_from_start(bytes)
             + calculate_overhead_from_end(bytes)

calculate_overhead(bytes) ==
    BASE_OVERHEAD + calculate_overhead_from_start(bytes)
        + calculate_overhead_from_end(bytes)

\* Every unsigned subtraction of the sizing code stays in range and ilog10
\* is never applied to 0.  Where this fails a debug build panics and a
\* release build wraps around 2^64.
ArithOK(bytes) ==
    /\ bytes >= BASE_OVERHEAD
    /\ content_bytes_of(bytes) >= 1
    /\ content_bytes_of(bytes) >= content_bytes_digits_of(bytes)
    /\ content_bytes_corrected(bytes) >= 1
    /\ bytes >= XREF_TABLE_BASE_OFFSET
    /\ offset_of(bytes) >= 1
    /\ bytes >= calculate_overhead(bytes)

\* vec![0; n]
zeroed(n) == [i \in 1..n |-> 0]

\* Variant: the last byte of the buffer left as allocated.
fill_Partial(bytes) == [i \in 1..Len(bytes) |-> IF i = Len(bytes) THEN bytes[i] ELSE FILLER]

\* bytes.fill_with(|| "4".as_bytes()[0])
fill(bytes) == [i \in 1..Len(bytes) |-> FILLER]

\* ---------------------------------------------------------------- document
Name(s) == [type |-> "Name", name |-> s, int |-> 0, bytes |-> <<>>]

Integer(i) == [type |-> "Integer", name |-> "", int |-> i, bytes |-> <<>>]

Literal(b) == [type |-> "String", name |-> "", int |-> 0, bytes |-> b]

Operation(op, args) == [operator |-> op, operands |-> args]

\* The object graph built by generate_pdf_with_size: the dictionaries are the
\* constant skeleton, the content stream carries the five operations.
Document(buf) ==
    [version |-> "1.5",
     max_id  |-> 6,
     content |-> << Operation("BT", <<>>),
                    Operation("Tf", <<Name("F1"), Integer(0)>>),
                    Operation("Td", <<Integer(100), Integer(600)>>),
                    Operation("Tj", <<Literal(buf)>>),
                    Operation("ET", <<>>) >>,
     root    |-> 6]

NoDocument == [version |-> "", max_id |-> 0, content |-> <<>>, root |-> 0]

NoResult == [tag |-> "None", kind |-> "", bytes |-> 0, doc |-> NoDocument]

\* Variant: a size below the minimum answered with the smallest document.
FileTooSmall_Clamped(bytes) ==
    [tag |-> "Ok", kind |-> "", bytes |-> 0, doc |-> Document(<<>>)]

\* Err(Error::FileTooSmall(file_size_bytes))
FileTooSmall(bytes) ==
    [tag |-> "Err", kind |-> "FileTooSmall", bytes |-> bytes, doc |-> NoDocument]

\* Err(Error::LoPDFError(e)), reached through the ? after content.encode()
\* and From<lopdf::Error> for Error.
LoPDFError == [tag |-> "Err", kind |-> "LoPDFError", bytes |-> 0, doc |-> NoDocument]

Ok(doc) == [tag |-> "Ok", kind |-> "", bytes |-> 0, doc |-> doc]

\* Operand of the show-text operation of a document.
TjOperand(doc) == doc.content[4].operands[1].bytes

\* ------------------------------------------------------------------ encoder
\* Decimal printing of a non-negative integer, most significant digit first.
RECURSIVE ToDecimal(_)
ToDecimal(n) == IF n < 10 THEN <<n>> ELSE Append(ToDecimal(n \div 10), n % 10)

digit_width(n) == Len(ToDecimal(n))

\* Value of the /Length entry of the content stream: the encoded operations,
\* i.e. the fill plus the constant bytes around it.
stream_length(doc) == Len(TjOperand(doc)) + CONTENT_OVERHEAD

\* Bytes of the constant skeleton that follow the start of the xref table,
\* the printed offset excluded: in the smallest document the table starts
\* XREF_TABLE_BASE_OFFSET bytes before the end and its offset is printed
\* with the digits of MIN_SIZE_PDF - XREF_TABLE_BASE_OFFSET.
XrefTailSkeleton ==
    XREF_TABLE_BASE_OFFSET - digit_width(MIN_SIZE_PDF - XREF_TABLE_BASE_OFFSET)

\* Position of the xref table: every byte written before it (header and
\* objects, the printed /Length included).
xref_start(doc) ==
    (BASE_OVERHEAD - XrefTailSkeleton) + Len(TjOperand(doc))
        + digit_width(stream_length(doc))

\* Document::save as far as sizes go: the two numbers it prints and the
\* number of bytes it writes.
save(doc) ==
    [length_field |-> stream_length(doc),
     startxref    |-> xref_start(doc),
     len          |-> xref_start(doc) + XrefTailSkeleton
                          + digit_width(xref_start(doc))]

NoFile == [length_field |-> 0, startxref |-> 0, len |-> 0]

\* Fill lengths of the contents built for a set of target sizes.
FillLengths(ts) ==
    { t - calculate_overhead(t) : t \in { u \in ts : u >= MIN_SIZE_PDF } }

\* Content::encode returns a Result.  Whether it fails is the encoder's
\* matter and a function of the content alone, which for this document is
\* its fill length: encode_errs holds the fill lengths on which it fails,
\* fixed for a whole run.
encode(content) ==
    IF Len(content[4].operands[1].bytes) \in encode_errs THEN "Err" ELSE "Ok"

\* ------------------------------------------------------------------ actions
Outcome(t, r) ==
    [target   |-> t,
     tag      |-> r.tag,
     kind     |-> r.kind,
     bytes    |-> r.bytes,
     fill_len |-> IF r.tag = "Ok" THEN Len(TjOperand(r.doc)) ELSE 0,
     fill     |-> IF r.tag = "Ok" THEN TjOperand(r.doc) ELSE <<>>]

NoCalc == [stage |-> "input", from_start |-> 0, from_end |-> 0, overhead |-> 0]

Init ==
    /\ pc = [c \in Callers |-> "idle"]
    /\ file_size_bytes = [c \in Callers |-> 0]
    /\ buffer = [c \in Callers |-> <<>>]
    /\ result = [c \in Callers |-> NoResult]
    /\ file = [c \in Callers |-> NoFile]
    /\ outcomes = {}
    /\ calc = [bytes |-> MIN_SIZE_PDF] @@ NoCalc
    /\ encode_errs \in {{}, FillLengths(Targets)}

\* Entry of generate_pdf_with_size and its size check.
Call(c, t) ==
    /\ pc[c] = "idle"
    /\ file_size_bytes' = [file_size_bytes EXCEPT ![c] = t]
    /\ IF t < MIN_SIZE_PDF
       THEN /\ result' = [result EXCEPT ![c] = FileTooSmall(t)]
            /\ outcomes' = outcomes \cup {Outcome(t, FileTooSmall(t))}
            /\ pc' = [pc EXCEPT ![c] = "returned"]
       ELSE /\ pc' = [pc EXCEPT ![c] = "allocate"]
            /\ UNCHANGED <<result, outcomes>>
    /\ UNCHANGED <<buffer, file, calc, encode_errs>>

\* let mut buffer = vec![0; file_size_bytes - calculate_overhead(file_size_bytes)];
Allocate(c) ==
    /\ pc[c] = "allocate"
    /\ IF ArithOK(file_size_bytes[c])
       THEN /\ buffer' = [buffer EXCEPT ![c] =
                   zeroed(file_size_bytes[c] - calculate_overhead(file_size_bytes[c]))]
            /\ pc' = [pc EXCEPT ![c] = "fill"]
       ELSE /\ pc' = [pc EXCEPT ![c] = "overflow"]
            /\ UNCHANGED buffer
    /\ UNCHANGED <<file_size_bytes, result, file, outcomes, calc, encode_errs>>

\* fill(&mut buffer);
Fill(c) ==
    /\ pc[c] = "fill"
    /\ buffer' = [buffer EXCEPT ![c] = fill(buffer[c])]
    /\ pc' = [pc EXCEPT ![c] = "build"]
    /\ UNCHANGED <<file_size_bytes, result, file, outcomes, calc, encode_errs>>

\* The document is assembled around the buffer, which moves into the Tj
\* operand; content.encode()? returns the encoder's error if there is one,
\* otherwise the document is completed and returned.
Build(c) ==
    /\ pc[c] = "build"
    /\ LET r == IF encode(Document(buffer[c]).content) = "Err"
                THEN LoPDFError
                ELSE Ok(Document(buffer[c]))
       IN  /\ result' = [result EXCEPT ![c] = r]
           /\ outcomes' = outcomes \cup {Outcome(file_size_bytes[c], r)}
    /\ buffer' = [buffer EXCEPT ![c] = <<>>]
    /\ pc' = [pc EXCEPT ![c] = "returned"]
    /\ UNCHANGED <<file_size_bytes, file, calc, encode_errs>>

\* The fuzz target saves the returned document and measures the file.
Save(c) ==
    /\ pc[c] = "returned"
    /\ result[c].tag = "Ok"
    /\ file' = [file EXCEPT ![c] = save(result[c].doc)]
    /\ pc' = [pc EXCEPT ![c] = "saved"]
    /\ UNCHANGED <<file_size_bytes, buffer, result, outcomes, calc, encode_errs>>

\* The caller drops the result and is free to call again.
Retire(c) ==
    /\ pc[c] = "returned"
    /\ pc' = [pc EXCEPT ![c] = "idle"]
    /\ file_size_bytes' = [file_size_bytes EXCEPT ![c] = 0]
    /\ result' = [result EXCEPT ![c] = NoResult]
    /\ UNCHANGED <<buffer, file, outcomes, calc, encode_errs>>

\* One call of the library and of the fuzz target's check, any target size.
Next ==
    \/ \E t \in Targets : Call(1, t)
    \/ Allocate(1)
    \/ Fill(1)
    \/ Build(1)
    \/ Save(1)

Spec == Init /\ [][Next]_vars

\* The same calls with the encoder the specification describes, which
\* encodes every content of this fixed shape.
InitOk == Init /\ encode_errs = {}

SpecOk == InitOk /\ [][Next]_vars

\* Callers calling again and again, interleaved step by step.
NextPar ==
    \E c \in Callers :
        \/ \E t \in ParTargets : Call(c, t)
        \/ Allocate(c)
        \/ Fill(c)
        \/ Build(c)
        \/ Retire(c)

InitPar ==
    /\ pc = [c \in Callers |-> "idle"]
    /\ file_size_bytes = [c \in Callers |-> 0]
    /\ buffer = [c \in Callers |-> <<>>]
    /\ result = [c \in Callers |-> NoResult]
    /\ file = [c \in Callers |-> NoFile]
    /\ outcomes = {}
    /\ calc = [bytes |-> MIN_SIZE_PDF] @@ NoCalc
    /\ encode_errs \in SUBSET FillLengths(ParTargets)

SpecPar == InitPar /\ [][NextPar]_vars

\* ------------------------------------------- the sizing functions alone
InitCalc ==
    /\ pc = [c \in Callers |-> "idle"]
    /\ file_size_bytes = [c \in Callers |-> 0]
    /\ buffer = [c \in Callers |-> <<>>]
    /\ result = [c \in Callers |-> NoResult]
    /\ file = [c \in Callers |-> NoFile]
    /\ outcomes = {}
    /\ \E t \in CalcInputs : calc = [bytes |-> t] @@ NoCalc
    /\ encode_errs = {}

\* calculate_overhead evaluates its operands left to right.
CalcStart ==
    /\ calc.stage = "input"
    /\ calc' = [calc EXCEPT !.stage = "start",
                            !.from_start = calculate_overhead_from_start(calc.bytes)]
    /\ UNCHANGED <<pc, file_size_bytes, buffer, result, file, outcomes, encode_errs>>

CalcEnd ==
    /\ calc.stage = "start"
    /\ calc' = [calc EXCEPT !.stage = "end",
                            !.from_end = calculate_overhead_from_end(calc.bytes)]
    /\ UNCHANGED <<pc, file_size_bytes, buffer, result, file, outcomes, encode_errs>>

CalcTotal ==
    /\ calc.stage = "end"
    /\ calc' = [calc EXCEPT !.stage = "done",
                            !.overhead = calculate_overhead(calc.bytes)]
    /\ UNCHANGED <<pc, file_size_bytes, buffer, result, file, outcomes, encode_errs>>

NextCalc == CalcStart \/ CalcEnd \/ CalcTotal

SpecCalc == InitCalc /\ [][NextCalc]_vars

\* =================================================================== claims
\* floor(log10(n)) + 1 for 1 <= n < 10^9, by comparison with powers of ten.
StrLen(n) == CHOOSE k \in 1..9 : Pow10(k - 1) <= n /\ n < Pow10(k)

InRange(t) == t >= 544 /\ t < max_value

\* C1 (as claimed): every document generated for a target size in
\* [544, 2^28) has, once saved, a file length equal to the target size.
C1_Exactness ==
    \A c \in Callers :
        (pc[c] = "saved" /\ InRange(file_size_bytes[c]))
            => file[c].len = file_size_bytes[c]

\* C2: a target size below 544 returns FileTooSmall carrying the requested
\* value, with no buffer and no document; from 544 on the size check
\* produces no error and what the call returns is a document.
C2_MinimumBoundary ==
    \A c \in Callers :
        pc[c] # "idle" =>
            /\ file_size_bytes[c] < 544 =>
                   /\ pc[c] = "returned"
                   /\ result[c].tag = "Err"
                   /\ result[c].kind = "FileTooSmall"
                   /\ result[c].bytes = file_size_bytes[c]
                   /\ result[c].doc = NoDocument
                   /\ buffer[c] = <<>>
            /\ file_size_bytes[c] >= 544 =>
                   /\ result[c].tag # "Err"
                   /\ pc[c] # "overflow"
                   /\ pc[c] \in {"returned", "saved"} =>
                          /\ result[c].tag = "Ok"
                          /\ result[c].doc.content # <<>>

C2_Witness ==
    /\ pc[1] = "returned"
    /\ file_size_bytes[1] = 544
    /\ result[1].tag = "Ok"
    /\ TjOperand(result[1].doc) = <<>>

\* C3: all calls made with the same target size, in whatever order and
\* interleaving, have the same outcome, and a call in flight holds a buffer
\* whose length depends on its own target size only.
C3_Determinism ==
    /\ \A o1, o2 \in outcomes : o1.target = o2.target => o1 = o2
    /\ \A c1, c2 \in Callers :
           (pc[c1] \in {"fill", "build"} /\ pc[c2] \in {"fill", "build"}
                /\ file_size_bytes[c1] = file_size_bytes[c2])
               => Len(buffer[c1]) = Len(buffer[c2])

C3_Witness ==
    \E c1, c2 \in Callers :
        /\ c1 # c2
        /\ pc[c1] = "returned" /\ pc[c2] = "build"
        /\ file_size_bytes[c1] = 611 /\ file_size_bytes[c2] = 611
        /\ result[c1].tag = "Ok"
        /\ Len(TjOperand(result[c1].doc)) = Len(buffer[c2])

\* C4: the operand of the Tj operation of a returned document has length
\* target size minus calculate_overhead(target size) and consists of the
\* byte '4' only, so of no backslash, parenthesis or control byte.
C4_FillBuffer ==
    \A c \in Callers :
        result[c].tag = "Ok" =>
            LET b == TjOperand(result[c].doc)
            IN  /\ Len(b) = file_size_bytes[c] - calculate_overhead(file_size_bytes[c])
                /\ \A i \in 1..Len(b) :
                       /\ b[i] = 52
                       /\ b[i] \notin {92, 40, 41}
                       /\ b[i] >= 32

C4_Witness ==
    /\ pc[1] = "returned"
    /\ result[1].tag = "Ok"
    /\ file_size_bytes[1] = 1000
    /\ Len(TjOperand(result[1].doc)) = 455

\* C5: where neither width changes from t to t + 1, the fill length grows
\* by exactly one.
C5_MonotonicFill ==
    (/\ calc.stage = "done"
     /\ calculate_overhead_from_start(calc.bytes + 1) = calc.from_start
     /\ calculate_overhead_from_end(calc.bytes + 1) = calc.from_end)
        => (calc.bytes + 1) - calculate_overhead(calc.bytes + 1)
               = (calc.bytes - calc.overhead) + 1

C5_Witness ==
    /\ calc.stage = "done"
    /\ calc.bytes = 1165
    /\ calculate_overhead_from_start(1166) = calc.from_start
    /\ calculate_overhead_from_end(1166) = calc.from_end
    /\ calc.bytes - calc.overhead = 619

\* C6 (as claimed): the start-side width computed for the target size is
\* the number of digits of the /Length actually written.
C6_StartWidthIsReal ==
    \A c \in Callers :
        (pc[c] = "saved" /\ InRange(file_size_bytes[c]))
            => calculate_overhead_from_start(file_size_bytes[c])
                   = digit_width(file[c].length_field)

\* C7 (as claimed): the xref offset written is the target size minus 162,
\* so the end-side width is the number of digits of the offset written.
\* Stated for the documents whose /Length width was computed right, where
\* the offset owes nothing to the start side.
C7_EndWidthIsReal ==
    \A c \in Callers :
        (/\ pc[c] = "saved"
         /\ InRange(file_size_bytes[c])
         /\ calculate_overhead_from_start(file_size_bytes[c])
                = digit_width(file[c].length_field))
            => /\ file[c].startxref = file_size_bytes[c] - 162
               /\ calculate_overhead_from_end(file_size_bytes[c])
                      = digit_width(file[c].startxref)

\* C8 (as claimed): calculate_overhead(t) is
\* 539 + strLen(t - 539 + 31) + strLen(t - 162).
C8_DocumentedClosedForm ==
    calc.stage = "done" =>
        calc.overhead = 539 + StrLen(calc.bytes - 539 + 31) + StrLen(calc.bytes - 162)

\* C9: a call either returns FileTooSmall before any sizing arithmetic, or
\* its target size is at least 544 and every intermediate value is in
\* range: no subtraction wraps, ilog10 never sees 0, the overhead does not
\* exceed the target size, and the fill is empty exactly at 544.
C9_NoUnderflow ==
    \A c \in Callers :
        LET t == file_size_bytes[c]
            cb == (t - 539) + 31
        IN  pc[c] # "idle" =>
                /\ pc[c] # "overflow"
                /\ t < 544 => (pc[c] = "returned" /\ result[c].kind = "FileTooSmall")
                /\ result[c].kind # "FileTooSmall" =>
                       /\ t >= 544
                       /\ t - 539 >= 0
                       /\ cb >= 1
                       /\ cb - (ilog10(cb) + 1) >= 1
                       /\ t - 162 >= 1
                       /\ calculate_overhead(t) <= t
                       /\ (t - calculate_overhead(t) = 0) <=> (t = 544)
                       /\ pc[c] \in {"fill", "build"} =>
                              ((Len(buffer[c]) = 0) <=> (t = 544))

C9_Witness ==
    /\ pc[1] = "fill"
    /\ file_size_bytes[1] = 544
    /\ buffer[1] = <<>>

\* C10 (as claimed): the fill length is strictly larger for t + 1 than for
\* t, for every t in [544, 2^28).
C10_DistinctFill ==
    (calc.stage = "done" /\ InRange(calc.bytes) /\ InRange(calc.bytes + 1))
        => (calc.bytes + 1) - calculate_overhead(calc.bytes + 1)
               > calc.bytes - calc.overhead
====
